---------------------------- MODULE Spec2Model ----------------------------
(***************************************************************************)
(* Model of the SNMP printer utility (src/main.go): the discovery phase    *)
(* scanNetwork (a producer enumerating a CIDR block into a buffered        *)
(* channel, W worker goroutines probing with checkSNMP and appending to a  *)
(* mutex-guarded slice) followed by main's sequential pollPrinter loop.    *)
(*                                                                         *)
(* Addresses are tuples of NumOctets octets, each in 0..OctetMax (4 and    *)
(* 255 in the program).  A prefix length counts whole octets of the model; *)
(* octets are one bit wide, so every bit prefix of a NumOctets-bit address *)
(* is covered.  net.ParseCIDR on an IPv4 block yields 4-byte addresses,    *)
(* for which ip.To4() in incIP never returns nil.                          *)
(***************************************************************************)
EXTENDS Integers, Sequences, FiniteSets, TLC

\* ---------------------------------------------------------------- bounds
\* octets per address (4 in the program)
NumOctets == 2
\* largest value of the -workers flag explored
MaxWorkers == 2
\* environment: at most this many status gets are answered positively in a
\* run; later probes are answered negatively
MaxFound == 2

\* ------------------------------------------------------------- addresses
\* an octet is scaled down to one bit, so that octet-aligned prefixes are
\* exactly the bit prefixes of a NumOctets-bit address
Octet == {0, 1}
OctetMax == CHOOSE m \in Octet : \A x \in Octet : x <= m
Octets == 1..NumOctets
Addr == [Octets -> Octet]
Base == OctetMax + 1

RECURSIVE Pow(_, _)
Pow(b, e) == IF e = 0 THEN 1 ELSE b * Pow(b, e - 1)

NumAddr == Pow(Base, NumOctets)
HistCap == NumAddr + 1

RECURSIVE ToIntFrom(_, _)
ToIntFrom(a, i) == IF i = 0 THEN 0 ELSE ToIntFrom(a, i - 1) * Base + a[i]
\* numeric (big-endian) value of an address
ToInt(a) == ToIntFrom(a, NumOctets)

RECURSIVE incFrom(_, _)
incFrom(newIP, i) ==
    IF i = 0 THEN newIP
    ELSE IF newIP[i] < OctetMax
         THEN [newIP EXCEPT ![i] = @ + 1]
         ELSE incFrom([newIP EXCEPT ![i] = 0], i - 1)

incIPSkip(a) == incFrom(incFrom(a, NumOctets), NumOctets)
\* incIP: copy, then increment the last octet with carry; all-max wraps to 0
incIP(a) == incFrom(a, NumOctets)

\* net.CIDRMask restricted to octet-aligned prefixes
CIDRMask(p) == [i \in Octets |-> IF i <= p THEN OctetMax ELSE 0]
\* byte & mask-byte, for mask bytes that are all ones or all zeros
AndOctet(x, m) == IF m = OctetMax THEN x ELSE 0
\* IP.Mask
MaskIP(a, m) == [i \in Octets |-> AndOctet(a[i], m[i])]
\* IPNet.Contains
Contains(n, a) == \A i \in Octets : n.IP[i] = AndOctet(a[i], n.Mask[i])

\* ----------------------------------------------------------------- inputs
\* a text ParseCIDR rejects, such as "not-a-cidr"
Invalid == [valid |-> FALSE, ip |-> <<>>, prefix |-> 0]
SeedIPs == {[i \in Octets |-> d] : d \in Octet}
CidrInputs == {Invalid} \cup
              {[valid |-> TRUE, ip |-> a, prefix |-> p] :
                  a \in SeedIPs, p \in 0..NumOctets}
WorkerInputs == 0..MaxWorkers
\* the runs explored: every block with every worker count, except that the
\* block covering the whole address space is run with at most one worker
Inputs == {in \in CidrInputs \X WorkerInputs :
              (in[1].valid /\ in[1].prefix = 0) => in[2] <= 1}

NoNet == [IP |-> <<>>, Mask |-> <<>>]
ParseCIDRNoError(c) ==
    [err |-> FALSE,
     ipnet |-> [IP |-> [i \in Octets |-> 0], Mask |-> CIDRMask(NumOctets)]]
\* net.ParseCIDR: error on malformed text, else the masked network and mask
ParseCIDR(c) ==
    IF ~c.valid THEN [err |-> TRUE, ipnet |-> NoNet]
    ELSE [err |-> FALSE,
          ipnet |-> [IP |-> MaskIP(c.ip, CIDRMask(c.prefix)),
                     Mask |-> CIDRMask(c.prefix)]]

WorkerIds == 1..(MaxWorkers + 1)
NoWorker == 0
NoIP == <<>>

VARIABLES
    cidr,        \* -cidr flag
    workers,     \* -workers flag
    mainpc,      \* position of the main goroutine
    ipnet,       \* parsed network
    spawned,     \* loop counter i of the worker-start loop
    ip,          \* producer's current address
    ipChan,      \* buffered channel contents
    chanState,   \* "none" | "open" | "closed"
    wg,          \* WaitGroup counter
    mu,          \* mutex holder (NoWorker when free)
    printers,    \* shared result slice
    wpc,         \* position of each worker goroutine
    wip,         \* address a worker is handling
    wlocal,      \* slice value read by a worker inside append
    result,      \* value returned by scanNetwork to main
    idx,         \* position of main's range loop over result
    pollActive,  \* pollPrinter calls started and not returned
    out,         \* standard output, one record per line/event
    produced,    \* history: addresses sent to ipChan, in order
    probedOnce,  \* history: addresses passed to checkSNMP at least once
    probedTwice, \* history: addresses passed to checkSNMP more than once
    answeredOk,  \* history: addresses whose status get answered positively
    polled,      \* history: addresses passed to pollPrinter, in order
    detail,      \* one pollPrinter call studied alone: answers and output
    probe,       \* one checkSNMP call studied alone: answers and outcome
    heap         \* the producer loop with net.IP values as shared buffers

scanVars == <<cidr, workers, mainpc, ipnet, spawned, ip, ipChan, chanState,
              wg, mu, printers, wpc, wip, wlocal, result, idx, pollActive, out,
              produced, probedOnce, probedTwice, answeredOk, polled>>
auxVars == <<detail, probe, heap>>
vars == <<scanVars, auxVars>>

mainVars == <<mainpc, ipnet, spawned, ip, result, idx, pollActive, polled>>
workerVars == <<wpc, wip, wlocal>>
histVars == <<probedOnce, probedTwice, answeredOk>>

\* one line of standard output; "by" records the goroutine that printed it
Line(k, a, x, w) == [kind |-> k, ip |-> a, arg |-> x, by |-> w]

\* the scan before main's first statement
ScanStart ==
    /\ mainpc = "start"
    /\ ipnet = NoNet
    /\ spawned = 0
    /\ ip = NoIP
    /\ ipChan = <<>>
    /\ chanState = "none"
    /\ wg = 0
    /\ mu = NoWorker
    /\ printers = <<>>
    /\ wpc = [w \in WorkerIds |-> "unborn"]
    /\ wip = [w \in WorkerIds |-> NoIP]
    /\ wlocal = [w \in WorkerIds |-> <<>>]
    /\ result = <<>>
    /\ idx = 0
    /\ pollActive = 0
    /\ out = <<>>
    /\ produced = <<>>
    /\ probedOnce = {}
    /\ probedTwice = {}
    /\ answeredOk = {}
    /\ polled = <<>>

\* the three studies that are not running
NoDetail == [pc |-> "off"]
NoProbe == [pc |-> "off"]
NoHeap == [pc |-> "off"]

Init ==
    /\ \E in \in Inputs : cidr = in[1] /\ workers = in[2]
    /\ ScanStart
    /\ detail = NoDetail
    /\ probe = NoProbe
    /\ heap = NoHeap

\* ------------------------------------------------------- history helpers
Record(h, x) == IF Len(h) < HistCap THEN Append(h, x) ELSE h

Found == SelectSeq(out, LAMBDA l : l.kind = "found")
\* positive status answers given so far (printed or about to be printed)
Positives == Len(Found) + Cardinality({w \in WorkerIds : wpc[w] = "name"})

\* ------------------------------------------------------------ main: scan
\* main prints the banner and calls scanNetwork, which parses the CIDR;
\* log.Fatalf ends the process, otherwise the channel is made
MainStart ==
    /\ mainpc = "start"
    /\ LET r == ParseCIDR(cidr) IN
       IF r.err
       THEN /\ mainpc' = "fatal"
            /\ out' = out \o <<Line("banner", NoIP, workers, NoWorker),
                                Line("fatal", NoIP, 0, NoWorker)>>
            /\ UNCHANGED <<ipnet, chanState>>
       ELSE /\ mainpc' = "spawn"
            /\ ipnet' = r.ipnet
            /\ chanState' = "open"
            /\ out' = Append(out, Line("banner", NoIP, workers, NoWorker))
    /\ UNCHANGED <<auxVars, cidr, workers, spawned, ip, ipChan, wg, mu, printers,
                   workerVars, result, idx, pollActive, produced, histVars,
                   polled>>

SpawnCondOffByOne(i, n) == i <= n
\* loop condition of the worker-start loop
SpawnCond(i, n) == i < n

\* one iteration of the worker-start loop: wg.Add(1); go func() {...}()
Spawn ==
    /\ mainpc = "spawn"
    /\ SpawnCond(spawned, workers)
    /\ spawned + 1 \in WorkerIds
    /\ wg' = wg + 1
    /\ wpc' = [wpc EXCEPT ![spawned + 1] = "recv"]
    /\ spawned' = spawned + 1
    /\ UNCHANGED <<auxVars, cidr, workers, mainpc, ipnet, ip, ipChan, chanState, mu,
                   printers, wip, wlocal, result, idx, pollActive, out,
                   produced, histVars, polled>>

\* ip := ipnet.IP
StartProduce ==
    /\ mainpc = "spawn"
    /\ ~SpawnCond(spawned, workers)
    /\ mainpc' = "produce"
    /\ ip' = ipnet.IP
    /\ UNCHANGED <<auxVars, cidr, workers, ipnet, spawned, ipChan, chanState, wg, mu,
                   printers, workerVars, result, idx, pollActive, out,
                   produced, histVars, polled>>

\* a send on a channel of capacity n proceeds when the buffer has room; with
\* n = 0 it needs a receiver, and any receiver that exists is a worker parked
\* in "recv" on the empty channel
CanSend(q, n) ==
    IF n > 0 THEN Len(q) < n
    ELSE Len(q) = 0 /\ \E w \in WorkerIds : wpc[w] = "recv"

\* one iteration of the producer loop: ipChan <- ip; ip = incIP(ip)
Produce ==
    /\ mainpc = "produce"
    /\ Contains(ipnet, ip)
    /\ CanSend(ipChan, workers)
    /\ ipChan' = Append(ipChan, ip)
    /\ produced' = Record(produced, ip)
    /\ ip' = incIP(ip)
    /\ UNCHANGED <<auxVars, cidr, workers, mainpc, ipnet, spawned, chanState, wg, mu,
                   printers, workerVars, result, idx, pollActive, out,
                   histVars, polled>>

\* loop exit and close(ipChan)
CloseChan ==
    /\ mainpc = "produce"
    /\ ~Contains(ipnet, ip)
    /\ chanState' = "closed"
    /\ mainpc' = "wait"
    /\ UNCHANGED <<auxVars, cidr, workers, ipnet, spawned, ip, ipChan, wg, mu, printers,
                   workerVars, result, idx, pollActive, out, produced,
                   histVars, polled>>

WaitDoneNoJoin(n) == TRUE
\* wg.Wait() returns when the counter is zero
WaitDone(n) == n = 0

\* wg.Wait(); return printers
Wait ==
    /\ mainpc = "wait"
    /\ WaitDone(wg)
    /\ result' = printers
    /\ mainpc' = "returned"
    /\ UNCHANGED <<auxVars, cidr, workers, ipnet, spawned, ip, ipChan, chanState, wg, mu,
                   printers, workerVars, idx, pollActive, out, produced,
                   histVars, polled>>

\* --------------------------------------------------------------- workers
ConnectResults == {"ok", "fail"}
GetResults == {"ok", "err", "empty", "noSuchObject"}
\* a value of an SNMP variable as Go's type assertions see it: an int, a
\* string, or anything else (bytes, nil, ...)
IntV(n) == [t |-> "int", i |-> n, s |-> ""]
StrV(x) == [t |-> "str", i |-> 0, s |-> x]
OtherV == [t |-> "other", i |-> 0, s |-> ""]

\* variable.Value.(string) and variable.Value.(int): the "ok" result
IsString(v) == v.t = "str"
IsInt(v) == v.t = "int"

\* the answer to the naming get: an error or the values of its variables
NameGet(err, vs) == [err |-> err, vals |-> vs]
\* outcomes of the naming get: a non-empty string, an error, no string value,
\* or empty strings only; which one a device gives is fixed per device
NameAnswers ==
    <<NameGet(FALSE, <<OtherV, StrV("laser"), StrV("host")>>),
      NameGet(TRUE, <<>>),
      NameGet(FALSE, <<OtherV, IntV(1), OtherV>>),
      NameGet(FALSE, <<StrV(""), StrV(""), StrV("")>>)>>
NameResults == {NameAnswers[i] : i \in 1..Len(NameAnswers)}
DeviceNameAnswer(a) == NameAnswers[(ToInt(a) % Len(NameAnswers)) + 1]

RecvKeepsHead(q) == q
\* the buffer after a receive took its head
RecvRest(q) == Tail(q)

\* for ip := range ipChan: take the head, or leave the loop once the channel
\* is closed and drained (deferred wg.Done)
Recv(w) ==
    /\ wpc[w] = "recv"
    /\ IF Len(ipChan) > 0
       THEN /\ wip' = [wip EXCEPT ![w] = Head(ipChan)]
            /\ ipChan' = RecvRest(ipChan)
            /\ wpc' = [wpc EXCEPT ![w] = "connect"]
            /\ wg' = wg
       ELSE /\ chanState = "closed"
            /\ wpc' = [wpc EXCEPT ![w] = "exited"]
            /\ wg' = wg - 1
            /\ UNCHANGED <<wip, ipChan>>
    /\ UNCHANGED <<auxVars, cidr, workers, mainVars, ipnet, chanState, mu, printers,
                   wlocal, out, produced, histVars>>

\* checkSNMP entry and params.Connect(): an error returns false
Connect(w) ==
    /\ wpc[w] = "connect"
    /\ probedOnce' = probedOnce \cup {wip[w]}
    /\ probedTwice' = IF wip[w] \in probedOnce THEN probedTwice \cup {wip[w]}
                               ELSE probedTwice
    /\ \E r \in ConnectResults :
         IF r = "ok"
         THEN /\ wpc' = [wpc EXCEPT ![w] = "get"]
              /\ wip' = wip
         ELSE /\ wpc' = [wpc EXCEPT ![w] = "recv"]
              /\ wip' = [wip EXCEPT ![w] = NoIP]
    /\ UNCHANGED <<auxVars, cidr, workers, mainVars, ipChan, chanState, wg, mu,
                   printers, wlocal, out, produced, answeredOk>>

GetPositiveAlways(r) == TRUE
\* the status get is positive unless it failed, came back empty or answered
\* NoSuchObject
GetPositive(r) == r = "ok"

\* params.Get(hrPrinterStatus): a negative answer returns false
Get(w) ==
    /\ wpc[w] = "get"
    /\ \E r \in GetResults :
         /\ r = "ok" => Positives < MaxFound
         /\ answeredOk' = IF r = "ok" THEN answeredOk \cup {wip[w]}
                                     ELSE answeredOk
         /\ IF GetPositive(r)
            THEN /\ wpc' = [wpc EXCEPT ![w] = "name"]
                 /\ wip' = wip
            ELSE /\ wpc' = [wpc EXCEPT ![w] = "recv"]
                 /\ wip' = [wip EXCEPT ![w] = NoIP]
    /\ UNCHANGED <<auxVars, cidr, workers, mainVars, ipChan, chanState, wg, mu,
                   printers, wlocal, out, produced, probedOnce, probedTwice>>

RECURSIVE FirstName(_)
\* the loop over nameResult.Variables: the first non-empty string, else ""
FirstName(vs) ==
    IF Len(vs) = 0 THEN ""
    ELSE IF IsString(Head(vs)) /\ Head(vs).s # "" THEN Head(vs).s
    ELSE FirstName(Tail(vs))

\* the name printed for a result of the naming get
NameOf(r) ==
    LET name == IF r.err THEN "" ELSE FirstName(r.vals)
    IN  IF name # "" THEN name ELSE "(unnamed)"

\* the answers of one device to the three requests of checkSNMP
ProbeDevice(c, g, n) == [connect |-> c, status |-> g, name |-> n]

DiscoveredIfNamed(dev) ==
    dev.connect = "ok" /\ GetPositive(dev.status) /\ ~dev.name.err
\* the value checkSNMP returns
Discovered(dev) == dev.connect = "ok" /\ GetPositive(dev.status)

\* checkSNMP(a) called by goroutine w against the answers dev: the value
\* returned and the lines printed
checkSNMP(a, dev, w) ==
    IF Discovered(dev)
    THEN [ok |-> TRUE, lines |-> <<Line("found", a, NameOf(dev.name), w)>>]
    ELSE [ok |-> FALSE, lines |-> <<>>]

\* params.Get(naming oids), the "Found printer" line, return true
NameLookup(w) ==
    /\ wpc[w] = "name"
    /\ \E r \in NameResults :
         /\ r = DeviceNameAnswer(wip[w])
         /\ out' = Append(out, Line("found", wip[w], NameOf(r), w))
    /\ wpc' = [wpc EXCEPT ![w] = "lock"]
    /\ UNCHANGED <<auxVars, cidr, workers, mainVars, ipChan, chanState, wg, mu,
                   printers, wip, wlocal, produced, histVars>>

LockFreeNoCheck(m) == TRUE
\* mu.Lock() proceeds when nobody holds the mutex
LockFree(m) == m = NoWorker

\* mu.Lock()
Lock(w) ==
    /\ wpc[w] = "lock"
    /\ LockFree(mu)
    /\ mu' = w
    /\ wpc' = [wpc EXCEPT ![w] = "read"]
    /\ UNCHANGED <<auxVars, cidr, workers, mainVars, ipChan, chanState, wg, printers,
                   wip, wlocal, out, produced, histVars>>

\* append(printers, x) reads the slice ...
AppendRead(w) ==
    /\ wpc[w] = "read"
    /\ wlocal' = [wlocal EXCEPT ![w] = printers]
    /\ wpc' = [wpc EXCEPT ![w] = "write"]
    /\ UNCHANGED <<auxVars, cidr, workers, mainVars, ipChan, chanState, wg, mu,
                   printers, wip, out, produced, histVars>>

AppendToFront(l, x) == <<x>> \o l
\* the slice append builds
AppendTo(l, x) == Append(l, x)

\* ... and printers = stores the extended slice
AppendWrite(w) ==
    /\ wpc[w] = "write"
    /\ printers' = AppendTo(wlocal[w], wip[w])
    /\ wlocal' = [wlocal EXCEPT ![w] = <<>>]
    /\ wpc' = [wpc EXCEPT ![w] = "unlock"]
    /\ UNCHANGED <<auxVars, cidr, workers, mainVars, ipChan, chanState, wg, mu, wip,
                   out, produced, histVars>>

\* mu.Unlock() and back to the range loop
Unlock(w) ==
    /\ wpc[w] = "unlock"
    /\ mu' = NoWorker
    /\ wpc' = [wpc EXCEPT ![w] = "recv"]
    /\ wip' = [wip EXCEPT ![w] = NoIP]
    /\ UNCHANGED <<auxVars, cidr, workers, mainVars, ipChan, chanState, wg, printers,
                   wlocal, out, produced, histVars>>

\* ------------------------------------------------- float64 arithmetic
\* IEEE-754 binary64 as the Go expressions float64(l) / float64(c) * 100 and
\* int(percent) compute it: every operation rounds to nearest, ties to even,
\* to a 53-bit significand.  Significands exceed the model checker's integer
\* range, so naturals are little-endian sequences of limbs below LimbBase.
LimbBase == 4096
LimbBits == 12
SigBits == 53

RECURSIVE Pow2(_)
Pow2(n) == IF n = 0 THEN 1 ELSE 2 * Pow2(n - 1)

RECURSIVE BitLenInt(_)
\* number of bits of a natural below LimbBase * LimbBase
BitLenInt(n) == IF n = 0 THEN 0 ELSE 1 + BitLenInt(n \div 2)

RECURSIVE Trim(_)
\* drop leading zero limbs
Trim(x) ==
    IF Len(x) > 0 /\ x[Len(x)] = 0 THEN Trim(SubSeq(x, 1, Len(x) - 1)) ELSE x

RECURSIVE BigFromInt(_)
BigFromInt(n) ==
    IF n = 0 THEN <<>> ELSE <<n % LimbBase>> \o BigFromInt(n \div LimbBase)

RECURSIVE BigToInt(_)
BigToInt(x) ==
    IF Len(x) = 0 THEN 0 ELSE x[1] + LimbBase * BigToInt(Tail(x))

BigBitLen(x) ==
    LET t == Trim(x)
    IN  IF Len(t) = 0 THEN 0
        ELSE (Len(t) - 1) * LimbBits + BitLenInt(t[Len(t)])

RECURSIVE BigMulCarry(_, _, _)
BigMulCarry(x, k, carry) ==
    IF Len(x) = 0
    THEN BigFromInt(carry)
    ELSE LET v == x[1] * k + carry
         IN  <<v % LimbBase>> \o BigMulCarry(Tail(x), k, v \div LimbBase)
\* x * k for a natural k below LimbBase
BigMulSmall(x, k) == Trim(BigMulCarry(x, k, 0))

RECURSIVE BigShl(_, _)
\* x * 2^n
BigShl(x, n) ==
    IF n = 0 THEN x
    ELSE IF n >= LimbBits THEN BigShl(<<0>> \o x, n - LimbBits)
    ELSE BigMulSmall(x, Pow2(n))

RECURSIVE BigDivFrom(_, _, _, _)
\* short division, most significant limb first; yields <<quotient, remainder>>
BigDivFrom(x, d, i, rem) ==
    IF i = 0 THEN <<<<>>, rem>>
    ELSE LET v == rem * LimbBase + x[i]
             rest == BigDivFrom(x, d, i - 1, v % d)
         IN  <<Append(rest[1], v \div d), rest[2]>>
\* x divided by a natural d with d * LimbBase in range
BigDivSmall(x, d) ==
    LET r == BigDivFrom(x, d, Len(x), 0) IN <<Trim(r[1]), r[2]>>

BigIsOdd(x) == Len(x) > 0 /\ x[1] % 2 = 1
RECURSIVE BigInc(_)
\* x + 1
BigInc(x) ==
    IF Len(x) = 0 THEN <<1>>
    ELSE IF x[1] + 1 < LimbBase THEN <<x[1] + 1>> \o Tail(x)
    ELSE <<0>> \o BigInc(Tail(x))

RECURSIVE BigShr(_, _)
\* <<floor(x / 2^n), whether a one bit was shifted out>>
BigShr(x, n) ==
    IF Len(x) = 0 THEN <<<<>>, FALSE>>
    ELSE IF n = 0 THEN <<x, FALSE>>
    ELSE IF n >= LimbBits
         THEN LET r == BigShr(Tail(x), n - LimbBits)
              IN  <<r[1], r[2] \/ x[1] # 0>>
    ELSE LET r == BigDivSmall(x, Pow2(n)) IN <<r[1], r[2] # 0>>

\* a float is sig * 2^exp with sig a natural of exactly SigBits bits (or zero)
FloatZero == [sig |-> <<>>, exp |-> 0]

\* round q * 2^e, with "sticky" telling that bits below q were already lost,
\* to SigBits bits: nearest, ties to even
RoundToFloat(q, e, sticky) ==
    LET drop == BigBitLen(q) - SigBits
    IN  IF drop <= 0 THEN [sig |-> BigShl(q, 0 - drop), exp |-> e + drop]
        ELSE LET hi == BigShr(q, drop)[1]
                 guard == BigIsOdd(BigShr(q, drop - 1)[1])
                 low == BigShr(q, drop - 1)[2] \/ sticky
                 up == guard /\ (low \/ BigIsOdd(hi))
                 sig == IF up THEN BigInc(hi) ELSE hi
             IN  IF BigBitLen(sig) > SigBits
                 THEN [sig |-> BigShr(sig, 1)[1], exp |-> e + drop + 1]
                 ELSE [sig |-> sig, exp |-> e + drop]

\* float64(n) for a natural n below 2^SigBits: exact
FloatOfNat(n) == IF n = 0 THEN FloatZero ELSE RoundToFloat(BigFromInt(n), 0, FALSE)

\* float64(l) / float64(c) for naturals l and c, c > 0
FloatDivNat(l, c) ==
    IF l = 0 THEN FloatZero
    ELSE LET s == SigBits + 2 + BitLenInt(c)
             r == BigDivSmall(BigShl(BigFromInt(l), s), c)
         IN  RoundToFloat(r[1], 0 - s, r[2] # 0)

\* f * k for a natural k below LimbBase (k is exact as a float64)
FloatMulNat(f, k) ==
    IF Len(f.sig) = 0 THEN FloatZero
    ELSE RoundToFloat(BigMulSmall(f.sig, k), f.exp, FALSE)

\* int(f) for f >= 0: truncation
FloatToInt(f) ==
    IF Len(f.sig) = 0 THEN 0
    ELSE IF f.exp >= 0 THEN BigToInt(BigShl(f.sig, f.exp))
    ELSE BigToInt(BigShr(f.sig, 0 - f.exp)[1])

\* int((float64(l) / float64(c)) * 100)
Percent(l, c) == FloatToInt(FloatMulNat(FloatDivNat(l, c), 100))

\* ------------------------------------------------------- device answers
\* one variable of the batch get, named by its object
Var(name, v) == [name |-> name, val |-> v]
\* one variable handed to a walk callback: table column, row index, value
Pdu(c, i, v) == [col |-> c, index |-> i, val |-> v]

printerStatusMapShifted ==
    [c \in {1, 2, 3, 4, 5} |->
        CASE c = 1 -> "other"
          [] c = 2 -> "unknown"
          [] c = 3 -> "printing"
          [] c = 4 -> "warmup"
          [] c = 5 -> "idle"]
printerStatusMap ==
    [c \in {1, 2, 3, 4, 5} |->
        CASE c = 1 -> "other"
          [] c = 2 -> "unknown"
          [] c = 3 -> "idle"
          [] c = 4 -> "printing"
          [] c = 5 -> "warmup"]

\* text, number and percentage part of one line of a device report
Detail(text, n, mark, pct, cap) ==
    [text |-> text, n |-> n, mark |-> mark, pct |-> pct, cap |-> cap]
Plain(text, n) == Detail(text, n, "none", 0, 0)

\* a line printed by main or by pollPrinter for address a
MLine(k, a, d) == Line(k, a, d, NoWorker)

\* --------------------------------------------------------- pollPrinter
\* the "Printer Status" line of an integer status code
StatusLine(a, val) ==
    IF val \in DOMAIN printerStatusMap
    THEN MLine("status", a, Plain(printerStatusMap[val], 0))
    ELSE MLine("status", a, Plain("(unknown)", val))

\* the switch on variable.Name for one variable of the batch get
BatchLine(a, v) ==
    CASE v.name = "sysDescr" ->
            IF IsString(v.val) /\ v.val.s # ""
            THEN <<MLine("descr", a, Plain(v.val.s, 0))>> ELSE <<>>
      [] v.name = "prtGeneralPrinterName" ->
            IF IsString(v.val) /\ v.val.s # ""
            THEN <<MLine("name", a, Plain(v.val.s, 0))>> ELSE <<>>
      [] v.name = "hrPrinterStatus" ->
            IF IsInt(v.val) THEN <<StatusLine(a, v.val.i)>> ELSE <<>>
      [] v.name = "prtMarkerLifeCount" ->
            IF IsInt(v.val)
            THEN <<MLine("pages", a, Plain("", v.val.i))>> ELSE <<>>
      [] OTHER -> <<>>

RECURSIVE BatchLines(_, _)
\* for _, variable := range result.Variables
BatchLines(a, vs) ==
    IF Len(vs) = 0 THEN <<>>
    ELSE BatchLine(a, Head(vs)) \o BatchLines(a, Tail(vs))

\* strings.HasPrefix(variable.Name, root + "." + p) for a column number c
HasColumnPrefix(c, p) == c = p \/ c \div 10 = p

Supply(d, l, c) == [Description |-> d, Level |-> l, MaxCapacity |-> c]
Tray(n, l, c) == [Name |-> n, CurrentLevel |-> l, MaxCapacity |-> c]
NoSupplies == [k \in {} |-> Supply("", 0, 0)]
NoTrays == [k \in {} |-> Tray("", 0, 0)]

\* m[k] = r
Store(m, k, r) ==
    [j \in DOMAIN m \cup {k} |-> IF j = k THEN r ELSE m[j]]

\* the supplies walk callback for one variable
SupplyStep(m, p) ==
    LET old == IF p.index \in DOMAIN m THEN m[p.index] ELSE Supply("", 0, 0)
        new == CASE HasColumnPrefix(p.col, 6) ->
                      IF IsString(p.val)
                      THEN [old EXCEPT !.Description = p.val.s] ELSE old
                 [] HasColumnPrefix(p.col, 9) ->
                      IF IsInt(p.val)
                      THEN [old EXCEPT !.Level = p.val.i] ELSE old
                 [] HasColumnPrefix(p.col, 8) ->
                      IF IsInt(p.val)
                      THEN [old EXCEPT !.MaxCapacity = p.val.i] ELSE old
                 [] OTHER -> old
    IN  Store(m, p.index, new)

\* the tray walk callback for one variable
TrayStep(m, p) ==
    LET old == IF p.index \in DOMAIN m THEN m[p.index] ELSE Tray("", 0, 0)
        new == CASE HasColumnPrefix(p.col, 2) ->
                      IF IsString(p.val)
                      THEN [old EXCEPT !.Name = p.val.s] ELSE old
                 [] HasColumnPrefix(p.col, 9) ->
                      IF IsInt(p.val)
                      THEN [old EXCEPT !.CurrentLevel = p.val.i] ELSE old
                 [] HasColumnPrefix(p.col, 8) ->
                      IF IsInt(p.val)
                      THEN [old EXCEPT !.MaxCapacity = p.val.i] ELSE old
                 [] OTHER -> old
    IN  Store(m, p.index, new)

RECURSIVE SupplyWalk(_, _)
\* params.Walk over prtMarkerSuppliesTable: the map after all callbacks
SupplyWalk(m, ps) ==
    IF Len(ps) = 0 THEN m ELSE SupplyWalk(SupplyStep(m, Head(ps)), Tail(ps))

RECURSIVE TrayWalk(_, _)
\* params.Walk over prtInputTable: the map after all callbacks
TrayWalk(m, ps) ==
    IF Len(ps) = 0 THEN m ELSE TrayWalk(TrayStep(m, Head(ps)), Tail(ps))

\* the orders in which a range over a Go map may visit its keys
Orders(m) ==
    {o \in [1..Cardinality(DOMAIN m) -> DOMAIN m] :
        \A i, j \in DOMAIN o : o[i] = o[j] => i = j}

\* the percentage part printed after "name: level"
PctPart(l, c) == Detail("", l, "pct", Percent(l, c), c)

\* one "- description: level ..." line of the supplies section
SupplyLine(a, s) ==
    LET desc == IF s.Description = "" THEN "Unknown Supply" ELSE s.Description
    IN  IF s.MaxCapacity > 0 /\ s.Level >= 0
        THEN MLine("supply", a,
                   [PctPart(s.Level, s.MaxCapacity) EXCEPT !.text = desc])
        ELSE IF s.Level = -3
        THEN MLine("supply", a, Detail(desc, s.Level, "unknown", 0, 0))
        ELSE MLine("supply", a, Plain(desc, s.Level))

\* one "- name: level ..." line of the paper-tray section
TrayLine(a, t) ==
    LET name == IF t.Name = "" THEN "Unknown Tray" ELSE t.Name
    IN  IF t.MaxCapacity > 0 /\ t.CurrentLevel >= 0
        THEN MLine("tray", a,
                   [PctPart(t.CurrentLevel, t.MaxCapacity) EXCEPT !.text = name])
        ELSE MLine("tray", a, Plain(name, t.CurrentLevel))

WalkOkIgnoreErr(err, m) == DOMAIN m # {}
\* err == nil && len(table) > 0
WalkOk(err, m) == ~err /\ DOMAIN m # {}

\* the "(No data available: err)" line of a table
NoData(k, a, err) == MLine(k, a, Plain(IF err THEN "error" ELSE "<nil>", 0))

\* the supplies section, the map visited in order o
SuppliesSection(a, walk, o) ==
    LET supplies == SupplyWalk(NoSupplies, walk.pdus)
    IN  IF WalkOk(walk.err, supplies)
        THEN <<MLine("suppliesHead", a, Plain("", 0))>> \o
             [i \in 1..Len(o) |-> SupplyLine(a, supplies[o[i]])]
        ELSE <<NoData("suppliesNone", a, walk.err)>>

\* the paper-tray section, the map visited in order o
TraysSection(a, walk, o) ==
    LET trays == TrayWalk(NoTrays, walk.pdus)
    IN  IF WalkOk(walk.err, trays)
        THEN <<MLine("traysHead", a, Plain("", 0))>> \o
             [i \in 1..Len(o) |-> TrayLine(a, trays[o[i]])]
        ELSE <<NoData("traysNone", a, walk.err)>>

\* everything pollPrinter prints for the device at address a answering dev,
\* its two map ranges visiting in orders oS and oT
pollPrinter(a, dev, oS, oT) ==
    IF dev.connect # "ok"
    THEN <<MLine("connectFail", a, Plain("", 0))>>
    ELSE IF dev.get.err
    THEN <<MLine("getFail", a, Plain("", 0))>>
    ELSE <<MLine("report", a, Plain("", 0))>>
         \o BatchLines(a, dev.get.vars)
         \o SuppliesSection(a, dev.supplies, oS)
         \o TraysSection(a, dev.trays, oT)

\* the iteration orders open to pollPrinter for the answers of dev
SupplyOrders(dev) == Orders(SupplyWalk(NoSupplies, dev.supplies.pdus))
TrayOrders(dev) == Orders(TrayWalk(NoTrays, dev.trays.pdus))

\* ------------------------------------------------------ answers modelled
Answer(err, xs) == [err |-> err, pdus |-> xs]
Batch(err, vs) == [err |-> err, vars |-> vs]
Device(c, g, s, t) == [connect |-> c, get |-> g, supplies |-> s, trays |-> t]

\* one table row: name column nc, level l and capacity c
Row(nc, i, name, l, c) ==
    <<Pdu(nc, i, StrV(name)), Pdu(8, i, IntV(c)), Pdu(9, i, IntV(l))>>

Levels == {-3, -2, 0, 29, 57, 80}
Capacities == {-2, 0, 100}

\* answers to a walk whose name column is nc: a failure, a failure after a
\* first row, no rows, every single row, rows without a name or with values of
\* another type, and two rows
WalkAnswers(nc) ==
    {Answer(TRUE, <<>>), Answer(FALSE, <<>>),
     Answer(TRUE, Row(nc, 1, "black", 80, 100))}
    \cup {Answer(FALSE, Row(nc, 1, "black", l, c)) :
             l \in Levels, c \in Capacities}
    \cup {Answer(FALSE, <<Pdu(8, 1, IntV(100)), Pdu(9, 1, IntV(29))>>),
          Answer(FALSE, <<Pdu(nc, 1, OtherV), Pdu(8, 1, StrV("100")),
                          Pdu(9, 1, IntV(80))>>),
          Answer(FALSE, Row(nc, 1, "black", 80, 100)
                        \o Row(nc, 2, "cyan", -3, 0)),
          Answer(FALSE, Row(nc, 2, "cyan", 57, 100)
                        \o Row(nc, 1, "black", 29, 100))}

StatusValues ==
    {IntV(c) : c \in {0, 1, 2, 3, 4, 5, 6, 99}} \cup {StrV("idle"), OtherV}

BatchAnswers ==
    {Batch(TRUE, <<>>), Batch(FALSE, <<>>)}
    \cup {Batch(FALSE, <<Var("sysDescr", StrV("laser")),
                         Var("hrPrinterStatus", v),
                         Var("prtGeneralPrinterName", OtherV),
                         Var("prtMarkerLifeCount", IntV(7))>>) :
             v \in StatusValues}

NoAnswer == Answer(TRUE, <<>>)
Devices ==
    {Device("fail", Batch(TRUE, <<>>), NoAnswer, NoAnswer)}
    \cup {Device("ok", g, s, t) :
             g \in BatchAnswers, s \in WalkAnswers(6), t \in WalkAnswers(2)}

\* the answers met by the scan's own detail phase: no connection, a failed
\* batch get, and reports with each table either failing or holding one row
\* without capacity (percentages are studied in SpecPoll)
ScanDevices ==
    {Device("fail", Batch(TRUE, <<>>), NoAnswer, NoAnswer),
     Device("ok", Batch(TRUE, <<>>), NoAnswer, NoAnswer)}
    \cup {Device("ok", Batch(FALSE, <<>>), s, t) :
             s \in {NoAnswer, Answer(FALSE, Row(6, 1, "black", -3, 0))},
             t \in {NoAnswer, Answer(FALSE, Row(2, 1, "tray 1", 0, 0))}}

\* ---------------------------------------------------------- main: report
\* main's branch on len(printers): the "none found" or the "found N" line
Report ==
    /\ mainpc = "returned"
    /\ IF Len(result) = 0
       THEN /\ out' = Append(out, Line("none", NoIP, 0, NoWorker))
            /\ mainpc' = "done"
            /\ idx' = idx
       ELSE /\ out' = Append(out, Line("count", NoIP, Len(result), NoWorker))
            /\ mainpc' = "poll"
            /\ idx' = 1
    /\ UNCHANGED <<auxVars, cidr, workers, ipnet, spawned, ip, ipChan, chanState, wg, mu,
                   printers, workerVars, result, pollActive, produced,
                   histVars, polled>>

PollTargetFirst(r, i) == r[1]
\* the element the range loop hands to pollPrinter in iteration i
PollTarget(r, i) == r[i]

\* main: for _, printer := range printers { pollPrinter(printer, ...) }
PollCall ==
    /\ mainpc = "poll"
    /\ idx <= Len(result)
    /\ pollActive' = pollActive + 1
    /\ polled' = Append(polled, PollTarget(result, idx))
    /\ mainpc' = "inpoll"
    /\ UNCHANGED <<auxVars, cidr, workers, ipnet, spawned, ip, ipChan, chanState, wg, mu,
                   printers, workerVars, result, idx, out, produced, histVars>>

\* the first line of what pollPrinter prints for a device
PollResults == {"connectFail", "getFail", "report"}

LoopNextStopOnFail(i, n, first) ==
    IF first.kind # "report" \/ i + 1 > n THEN "done" ELSE "poll"
\* pollPrinter returns nothing: whatever its first line was, the range loop
\* goes on to element i + 1 of n or ends
LoopNext(i, n, first) == IF i + 1 <= n THEN "poll" ELSE "done"

\* pollPrinter runs to its return; main's loop advances or ends
PollReturn ==
    /\ mainpc = "inpoll"
    /\ \E d \in ScanDevices :
         \E oS \in SupplyOrders(d), oT \in TrayOrders(d) :
            LET lines == pollPrinter(polled[Len(polled)], d, oS, oT)
            IN  /\ out' = out \o lines
                /\ mainpc' = LoopNext(idx, Len(result), lines[1])
    /\ pollActive' = pollActive - 1
    /\ idx' = idx + 1
    /\ UNCHANGED <<auxVars, cidr, workers, ipnet, spawned, ip, ipChan, chanState, wg, mu,
                   printers, workerVars, result, polled, produced, histVars>>

\* ------------------------------------------------------------------ spec
MainStep ==
    \/ MainStart
    \/ Spawn
    \/ StartProduce
    \/ Produce
    \/ CloseChan
    \/ Wait
    \/ Report
    \/ PollCall
    \/ PollReturn

WorkerStep(w) ==
    \/ Recv(w)
    \/ Connect(w)
    \/ Get(w)
    \/ NameLookup(w)
    \/ Lock(w)
    \/ AppendRead(w)
    \/ AppendWrite(w)
    \/ Unlock(w)

Next == MainStep \/ \E w \in WorkerIds : WorkerStep(w)

Spec == Init /\ [][Next]_vars

\* scheduling: every goroutine that can run eventually runs, a goroutine
\* waiting in mu.Lock() eventually gets the mutex, and every probe returns
FairSpec ==
    /\ Spec
    /\ WF_vars(MainStep)
    /\ \A w \in WorkerIds : WF_vars(WorkerStep(w)) /\ SF_vars(Lock(w))

\* ------------------------------------------------- pollPrinter, alone
\* the address of the device polled
PollAddr == [i \in Octets |-> 0]

InitPoll ==
    /\ cidr = Invalid
    /\ workers = 0
    /\ ScanStart
    /\ \E d \in Devices :
          detail = [pc |-> "ready", dev |-> d, rep1 |-> <<>>, rep2 |-> <<>>]
    /\ probe = NoProbe
    /\ heap = NoHeap

\* pollPrinter(ip, community) against the answers detail.dev
PollOnce ==
    /\ detail.pc = "ready"
    /\ \E oS \in SupplyOrders(detail.dev), oT \in TrayOrders(detail.dev) :
          detail' = [detail EXCEPT
                        !.pc = "once",
                        !.rep1 = pollPrinter(PollAddr, detail.dev, oS, oT)]
    /\ UNCHANGED <<scanVars, probe, heap>>

\* a second run of pollPrinter against the same answers
PollAgain ==
    /\ detail.pc = "once"
    /\ \E oS \in SupplyOrders(detail.dev), oT \in TrayOrders(detail.dev) :
          detail' = [detail EXCEPT
                        !.pc = "twice",
                        !.rep2 = pollPrinter(PollAddr, detail.dev, oS, oT)]
    /\ UNCHANGED <<scanVars, probe, heap>>

NextPoll == PollOnce \/ PollAgain

SpecPoll == InitPoll /\ [][NextPoll]_vars


\* --------------------------------------------------- checkSNMP, alone
NameValues == {StrV("laser"), StrV("host"), StrV(""), OtherV, IntV(1)}
NameGets ==
    {NameGet(TRUE, <<>>)}
    \cup {NameGet(FALSE, vs) :
             vs \in UNION {[1..n -> NameValues] : n \in 0..3}}
ProbeDevices ==
    {ProbeDevice(c, g, n) :
        c \in ConnectResults, g \in GetResults, n \in NameGets}

InitProbe ==
    /\ cidr = Invalid
    /\ workers = 0
    /\ ScanStart
    /\ detail = NoDetail
    /\ \E d \in ProbeDevices :
          probe = [pc |-> "ready", dev |-> d,
                   res |-> [ok |-> FALSE, lines |-> <<>>]]
    /\ heap = NoHeap

\* checkSNMP(ip, community) against the answers probe.dev
ProbeRun ==
    /\ probe.pc = "ready"
    /\ probe' = [probe EXCEPT !.pc = "done",
                              !.res = checkSNMP(PollAddr, probe.dev, 1)]
    /\ UNCHANGED <<scanVars, detail, heap>>

NextProbe == ProbeRun

SpecProbe == InitProbe /\ [][NextProbe]_vars

\* ------------------------------------ producer loop, addresses as buffers
\* A net.IP is a slice: a reference to a byte buffer.  heap.mem holds the
\* buffers (a reference is an index into it), the channel carries references,
\* and a worker reads the bytes when it calls ip.String().
NoRef == 0
HeapNet == ParseCIDR(cidr).ipnet

InitHeap ==
    /\ \E in \in Inputs :
          in[1].valid /\ in[2] >= 1 /\ cidr = in[1] /\ workers = in[2]
    /\ ScanStart
    /\ detail = NoDetail
    /\ probe = NoProbe
    /\ heap = [pc |-> "send",
               mem |-> <<HeapNet.IP>>,   \* buffer 1 is ipnet.IP
               ipRef |-> 1,              \* ip := ipnet.IP
               chan |-> <<>>,            \* references queued in ipChan
               sentVals |-> <<>>,        \* history: their bytes when sent
               held |-> NoRef,           \* reference a worker has received
               heldSent |-> NoIP,        \* history: its bytes when sent
               log |-> {}]               \* history: bytes probed and bytes sent

\* ipChan <- ip
HeapSend ==
    /\ heap.pc = "send"
    /\ Contains(HeapNet, heap.mem[heap.ipRef])
    /\ Len(heap.chan) < workers
    /\ heap' = [heap EXCEPT
                   !.pc = "inc",
                   !.chan = Append(@, heap.ipRef),
                   !.sentVals = Append(@, heap.mem[heap.ipRef])]
    /\ UNCHANGED <<scanVars, detail, probe>>

incIPTargetArg(arg, fresh) == arg
\* the buffer incIP writes the incremented bytes to: newIP, made by make
incIPTarget(arg, fresh) == fresh

\* ip = incIP(ip)
HeapInc ==
    /\ heap.pc = "inc"
    /\ Len(heap.mem) < HistCap
    /\ LET fresh == Len(heap.mem) + 1
           target == incIPTarget(heap.ipRef, fresh)
           made == Append(heap.mem, [i \in Octets |-> 0])
       IN  heap' = [heap EXCEPT
                       !.pc = "send",
                       !.mem = [made EXCEPT
                                   ![target] = incIP(heap.mem[heap.ipRef])],
                       !.ipRef = target]
    /\ UNCHANGED <<scanVars, detail, probe>>

\* loop exit and close(ipChan)
HeapClose ==
    /\ heap.pc = "send"
    /\ ~Contains(HeapNet, heap.mem[heap.ipRef])
    /\ heap' = [heap EXCEPT !.pc = "closed"]
    /\ UNCHANGED <<scanVars, detail, probe>>

\* for ip := range ipChan: a worker takes the head reference
HeapRecv ==
    /\ heap.held = NoRef
    /\ Len(heap.chan) > 0
    /\ heap' = [heap EXCEPT
                   !.chan = Tail(@),
                   !.sentVals = Tail(@),
                   !.held = Head(heap.chan),
                   !.heldSent = Head(heap.sentVals)]
    /\ UNCHANGED <<scanVars, detail, probe>>

\* checkSNMP(ip.String(), ...): the worker reads the bytes it was handed
HeapProbe ==
    /\ heap.held # NoRef
    /\ heap' = [heap EXCEPT
                   !.log = @ \cup {[got |-> heap.mem[heap.held],
                                    sent |-> heap.heldSent]},
                   !.held = NoRef,
                   !.heldSent = NoIP]
    /\ UNCHANGED <<scanVars, detail, probe>>

NextHeap == HeapSend \/ HeapInc \/ HeapClose \/ HeapRecv \/ HeapProbe

SpecHeap == InitHeap /\ [][NextHeap]_vars

\* ---------------------------------------------------------------- claims
Range(q) == {q[i] : i \in 1..Len(q)}
NoDuplicates(q) == \A i, j \in 1..Len(q) : q[i] = q[j] => i = j
IsPrefix(q, r) == Len(q) <= Len(r) /\ \A i \in 1..Len(q) : q[i] = r[i]
HasLine(k) == \E i \in 1..Len(out) : out[i].kind = k

\* scanNetwork has returned to main
Returned == mainpc \in {"returned", "poll", "inpoll", "done"}
\* the addresses of the block named by the -cidr flag
NetAddr == MaskIP(cidr.ip, CIDRMask(cidr.prefix))
Block == {a \in Addr : \A i \in 1..cidr.prefix : a[i] = cidr.ip[i]}
BlockSize == Pow(Base, NumOctets - cidr.prefix)
\* workers inside checkSNMP
Probing == {w \in WorkerIds : wpc[w] \in {"connect", "get", "name"}}
\* workers between mu.Lock() and mu.Unlock()
InCritical == {w \in WorkerIds : wpc[w] \in {"read", "write", "unlock"}}
\* workers whose probe was positive and whose append is not yet stored
Pending == {w \in WorkerIds : wpc[w] \in {"lock", "read", "write"}}
\* the addresses of the "Found printer" lines, in output order
FoundIps == [i \in 1..Len(Found) |-> Found[i].ip]

\* C1: once scanNetwork has returned (W >= 1), every address of the block has
\* been passed to checkSNMP exactly once and no other address has been probed.
C1_ExactlyOnce ==
    (Returned /\ workers >= 1) => (probedOnce = Block /\ probedTwice = {})

C1_Witness ==
    Returned /\ workers = 2 /\ Cardinality(Block) >= 2 /\ probedOnce = Block

\* C2: the returned list holds exactly the addresses whose probe was positive,
\* each once, and no address whose probe was negative is ever appended.
C2_Partition ==
    /\ Range(printers) \subseteq answeredOk
    /\ Returned => /\ Range(result) = answeredOk
                   /\ NoDuplicates(result)

C2_Witness ==
    /\ Returned
    /\ Cardinality(Block) >= 2
    /\ Len(result) = 1
    /\ probedOnce \ answeredOk # {}

\* C3: for every valid block the producer sends exactly BlockSize addresses,
\* starting at the network address, each the successor of the previous one,
\* and the sequence is complete when the channel is closed.
C3_Enumeration ==
    cidr.valid =>
        /\ Len(produced) <= BlockSize
        /\ \A i \in 1..Len(produced) :
               ToInt(produced[i]) = ToInt(NetAddr) + i - 1
        /\ chanState = "closed" => Len(produced) = BlockSize

\* C4: for every valid block and W >= 1 the discovery phase eventually
\* completes: scanNetwork returns.
C4_Terminates == (cidr.valid /\ workers >= 1) ~> Returned

\* C5: scanNetwork has returned only when the channel is closed and drained,
\* every address of the block has been probed, all W workers have exited, and
\* the shared list is the list that was returned (no append after the return).
C5_JoinBeforeUse ==
    Returned =>
        /\ chanState = "closed"
        /\ ipChan = <<>>
        /\ Block \subseteq probedOnce
        /\ Probing = {}
        /\ spawned = workers
        /\ \A w \in 1..spawned : wpc[w] = "exited"
        /\ printers = result

C5_Witness == mainpc = "inpoll" /\ workers = 2 /\ Len(result) = 2

\* C6: at most W probes are in flight.
C6_BoundedInFlight == Cardinality(Probing) <= workers

C6_Witness == workers = 2 /\ Cardinality(Probing) = 2

\* C7: at most one worker is between mu.Lock() and mu.Unlock(), it holds the
\* mutex, and no append is lost: the list length is the number of positive
\* probes whose append has been stored.
C7_MutexAppend ==
    /\ Cardinality(InCritical) <= 1
    /\ \A w \in InCritical : mu = w
    /\ Len(printers) + Cardinality(Pending) = Len(Found)
    /\ Returned => Len(result) = Len(Found)

C7_Witness ==
    \E w1, w2 \in WorkerIds :
        wpc[w1] = "write" /\ wpc[w2] = "lock" /\ Len(printers) = 0

\* C8 as claimed: the returned list is in the order of the discovery
\* notifications.
C8_NotificationOrder == Returned => result = FoundIps

\* the worker that printed the "Found printer" line of address a
FoundBy(a) == (CHOOSE l \in Range(Found) : l.ip = a).by
FoundIpsOf(w) ==
    LET mine == SelectSeq(Found, LAMBDA l : l.by = w)
    IN  [i \in 1..Len(mine) |-> mine[i].ip]
ResultOf(w) == SelectSeq(result, LAMBDA a : FoundBy(a) = w)

\* C8 amended: the returned list holds exactly the notified addresses, and the
\* addresses found by one worker appear in the order of their notifications.
C8_PerWorkerOrder ==
    Returned =>
        /\ Range(result) = Range(FoundIps)
        /\ Len(result) = Len(FoundIps)
        /\ \A w \in WorkerIds : ResultOf(w) = FoundIpsOf(w)

C8_Witness ==
    /\ Returned
    /\ Len(result) = 2
    /\ result # FoundIps
    /\ \A w \in WorkerIds : ResultOf(w) = FoundIpsOf(w)

\* C9: with a malformed CIDR the run ends in log.Fatalf with no channel, no
\* worker, no address enqueued, no probe and no pollPrinter call; and the
\* fatal exit is reached by no other error.
C9_FatalBeforeActivity ==
    /\ ~cidr.valid =>
          /\ mainpc \in {"start", "fatal"}
          /\ chanState = "none"
          /\ ipChan = <<>>
          /\ spawned = 0
          /\ \A w \in WorkerIds : wpc[w] = "unborn"
          /\ produced = <<>>
          /\ probedOnce = {}
          /\ polled = <<>>
          /\ pollActive = 0
    /\ mainpc = "fatal" => ~cidr.valid

C9_Witness == mainpc = "fatal" /\ HasLine("fatal")

\* C10: main calls pollPrinter one call at a time, for the addresses of the
\* returned list in list order, each exactly once by the end; an empty list
\* gives the "none found" line and no call, a non-empty one the "found N" line.
C10_SequentialPoll ==
    /\ pollActive <= 1
    /\ pollActive = 1 <=> mainpc = "inpoll"
    /\ IsPrefix(polled, result)
    /\ mainpc = "done" => polled = result
    /\ (mainpc = "done" /\ Len(result) = 0) =>
          (HasLine("none") /\ ~HasLine("count") /\ polled = <<>>)
    /\ (mainpc \in {"poll", "inpoll", "done"} /\ Len(result) > 0) =>
          /\ ~HasLine("none")
          /\ \E i \in 1..Len(out) :
                out[i].kind = "count" /\ out[i].arg = Len(result)

C10_Witness == mainpc = "done" /\ Len(polled) = 2 /\ polled[1] # polled[2]

\* the first lines of the device reports printed so far
Heads == SelectSeq(out, LAMBDA l : l.kind \in PollResults)

\* C11: a connect or batch-get failure prints its error line and nothing else
\* for that device (no header, no table section); every polled device has one
\* first line, in list order; and when main is done every address of the
\* list has been polled, however many of them failed.
C11_FailureIsLocal ==
    /\ Len(Heads) = Len(polled) - pollActive
    /\ \A i \in 1..Len(Heads) : Heads[i].ip = polled[i]
    /\ \A i \in 1..Len(out) :
          out[i].kind \in {"connectFail", "getFail"} =>
              (i = Len(out) \/ out[i + 1].kind \in PollResults)
    /\ (Returned /\ Len(result) > 0 /\ Len(Heads) = Len(result)) =>
          mainpc = "done"
    /\ mainpc = "done" => (polled = result /\ Len(Heads) = Len(result))

C11_Witness ==
    /\ mainpc = "done"
    /\ Len(Heads) = 2
    /\ Heads[1].kind = "connectFail"
    /\ Heads[2].kind = "report"
    /\ HasLine("traysHead")

\* pollPrinter has run against detail.dev, and got past connect and batch get
Ran == detail.pc \in {"once", "twice"}
Reported == Ran /\ detail.dev.connect = "ok" /\ ~detail.dev.get.err
Kinds(q) == [i \in 1..Len(q) |-> q[i].kind]
SupplyKinds == {"suppliesHead", "supply", "suppliesNone"}
TrayKinds == {"traysHead", "tray", "traysNone"}
SupLines == SelectSeq(detail.rep1, LAMBDA l : l.kind \in SupplyKinds)
TrayLines == SelectSeq(detail.rep1, LAMBDA l : l.kind \in TrayKinds)
RowLines == SelectSeq(detail.rep1, LAMBDA l : l.kind \in {"supply", "tray"})
\* the maps the two walks built
SuppliesMap == SupplyWalk(NoSupplies, detail.dev.supplies.pdus)
TraysMap == TrayWalk(NoTrays, detail.dev.trays.pdus)
SupFailed == detail.dev.supplies.err \/ DOMAIN SuppliesMap = {}
TrayFailed == detail.dev.trays.err \/ DOMAIN TraysMap = {}
\* a section of n rows: its header line and n row lines
Populated(q, head, row, n) ==
    /\ Len(q) = n + 1
    /\ q[1].kind = head
    /\ \A i \in 2..Len(q) : q[i].kind = row

\* C12: in every report that got past the batch get, a supplies walk that
\* failed or found nothing gives the one "no data available" line, a tray walk
\* likewise, each section is rendered from its own walk alone whatever the
\* other walk did, and the supplies section precedes the tray section, which
\* ends the report.
C12_WalksIndependent ==
    Reported =>
        /\ SupFailed => Kinds(SupLines) = <<"suppliesNone">>
        /\ ~SupFailed => Populated(SupLines, "suppliesHead", "supply",
                                   Cardinality(DOMAIN SuppliesMap))
        /\ TrayFailed => Kinds(TrayLines) = <<"traysNone">>
        /\ ~TrayFailed => Populated(TrayLines, "traysHead", "tray",
                                    Cardinality(DOMAIN TraysMap))
        /\ detail.rep1[1].kind = "report"
        /\ SubSeq(detail.rep1,
                  Len(detail.rep1) - Len(SupLines) - Len(TrayLines) + 1,
                  Len(detail.rep1)) = SupLines \o TrayLines

C12_Witness ==
    /\ Reported
    /\ detail.dev.supplies.err
    /\ Len(detail.dev.supplies.pdus) > 0
    /\ Kinds(SupLines) = <<"suppliesNone">>
    /\ Kinds(TrayLines) = <<"traysHead", "tray", "tray">>

\* C13: a row line carries a percentage exactly when its record has
\* capacity > 0 and level >= 0, and the percentage is floor(100 * level /
\* capacity) in exact integer arithmetic.
C13_ExactPercentage ==
    Ran =>
        /\ \A i \in 1..Len(RowLines) :
              RowLines[i].arg.mark = "pct" =>
                  /\ RowLines[i].arg.cap > 0
                  /\ RowLines[i].arg.n >= 0
                  /\ RowLines[i].arg.pct =
                        (100 * RowLines[i].arg.n) \div RowLines[i].arg.cap
        /\ \A k \in DOMAIN SuppliesMap :
              (Reported /\ ~SupFailed
                  /\ SuppliesMap[k].MaxCapacity > 0 /\ SuppliesMap[k].Level >= 0)
              => \E i \in 1..Len(SupLines) :
                    /\ SupLines[i].arg.mark = "pct"
                    /\ SupLines[i].arg.n = SuppliesMap[k].Level
                    /\ SupLines[i].arg.cap = SuppliesMap[k].MaxCapacity
        /\ \A k \in DOMAIN TraysMap :
              (Reported /\ ~TrayFailed
                  /\ TraysMap[k].MaxCapacity > 0 /\ TraysMap[k].CurrentLevel >= 0)
              => \E i \in 1..Len(TrayLines) :
                    /\ TrayLines[i].arg.mark = "pct"
                    /\ TrayLines[i].arg.n = TraysMap[k].CurrentLevel
                    /\ TrayLines[i].arg.cap = TraysMap[k].MaxCapacity

\* C14: every supply line and every tray line of a record whose level is -3
\* carries the "(unknown)" marker and no percentage.
C14_UnknownMarker ==
    Ran => \A i \in 1..Len(RowLines) :
              RowLines[i].arg.n = -3 => RowLines[i].arg.mark = "unknown"

\* the status variable of the batch answer, if any
StatusVars ==
    SelectSeq(detail.dev.get.vars, LAMBDA v : v.name = "hrPrinterStatus")
StatusLines == SelectSeq(detail.rep1, LAMBDA l : l.kind = "status")
StatusNames == <<"other", "unknown", "idle", "printing", "warmup">>

\* C15: an integer status 1..5 is rendered by name (1 other, 2 unknown,
\* 3 idle, 4 printing, 5 warmup), any other integer as its number marked
\* "(unknown)", and a status that is not an integer gives no status line
\* while the report goes on to its table sections.
C15_StatusMapping ==
    Reported =>
        /\ Len(StatusLines) <= 1
        /\ Len(TrayLines) >= 1
        /\ \A j \in 1..Len(StatusVars) :
              LET v == StatusVars[j].val
              IN  /\ (IsInt(v) /\ v.i \in 1..5) =>
                        /\ Len(StatusLines) = 1
                        /\ StatusLines[1].arg.text = StatusNames[v.i]
                        /\ StatusLines[1].arg.mark = "none"
                  /\ (IsInt(v) /\ v.i \notin 1..5) =>
                        /\ Len(StatusLines) = 1
                        /\ StatusLines[1].arg.text = "(unknown)"
                        /\ StatusLines[1].arg.n = v.i
                  /\ ~IsInt(v) => StatusLines = <<>>
        /\ StatusVars = <<>> => StatusLines = <<>>

C15_Witness ==
    /\ Reported
    /\ Len(StatusLines) = 1
    /\ StatusLines[1].arg.text = "idle"
    /\ StatusVars[1].val = IntV(3)

\* positions of the naming answer holding a non-empty string
NamedAt(n) == {i \in 1..Len(n.vals) : n.vals[i].t = "str" /\ n.vals[i].s # ""}
\* the name a discovery notification must carry for the naming answer n
ExpectedName(n) ==
    IF n.err \/ NamedAt(n) = {} THEN "(unnamed)"
    ELSE n.vals[CHOOSE i \in NamedAt(n) : \A j \in NamedAt(n) : i <= j].s

\* C16: checkSNMP returns true exactly when connect succeeded and the status
\* get answered "ok" (no error, not empty, not NoSuchObject), whatever the
\* naming get did; a positive probe prints exactly one "Found printer" line
\* with the first non-empty string of the naming answer or "(unnamed)", and a
\* negative probe prints nothing.
C16_ProbeOutcome ==
    probe.pc = "done" =>
        /\ probe.res.ok <=>
              (probe.dev.connect = "ok" /\ probe.dev.status = "ok")
        /\ probe.res.ok =>
              /\ Len(probe.res.lines) = 1
              /\ probe.res.lines[1].kind = "found"
              /\ probe.res.lines[1].arg = ExpectedName(probe.dev.name)
        /\ ~probe.res.ok => probe.res.lines = <<>>

C16_Witness ==
    /\ probe.pc = "done"
    /\ probe.res.ok
    /\ probe.dev.name.err
    /\ probe.res.lines[1].arg = "(unnamed)"

\* C17: two runs of pollPrinter over the same answers print the same lines
\* in the same order.
C17_Deterministic == detail.pc = "twice" => detail.rep1 = detail.rep2

\* C18: incIP writes to a fresh buffer and leaves its argument's buffer as it
\* was: every buffer keeps the bytes it was first given, every reference
\* waiting in the channel or held by a worker still points at the bytes it had
\* when it was sent, and every address a worker probed is the address that
\* was sent.
C18_SentValueStable ==
    /\ \A r \in 1..Len(heap.mem) :
          ToInt(heap.mem[r]) = (ToInt(HeapNet.IP) + r - 1) % NumAddr
    /\ heap.ipRef = Len(heap.mem)
    /\ \A i \in 1..Len(heap.chan) :
          /\ heap.mem[heap.chan[i]] = heap.sentVals[i]
          /\ heap.pc = "send" => heap.chan[i] # heap.ipRef
    /\ heap.held # NoRef => heap.mem[heap.held] = heap.heldSent
    /\ \A e \in heap.log : e.got = e.sent

C18_Witness ==
    /\ heap.held # NoRef
    /\ heap.ipRef >= heap.held + 2
    /\ Len(heap.chan) > 0
    /\ heap.log # {}

\* C19: for every worker count 0..MaxWorkers there is no state in which the
\* producer is blocked in its send while no worker exists or can still receive.
C19_NoBlockedSend ==
    ~ /\ mainpc = "produce"
      /\ Contains(ipnet, ip)
      /\ ~CanSend(ipChan, workers)
      /\ \A w \in WorkerIds : wpc[w] \in {"unborn", "exited"}

=============================================================================
